---- MODULE Spec2Model ----
(***************************************************************************)
(* Streaming candlestick chart state of kmohhidayah/rust_exercise.         *)
(*                                                                         *)
(*   kline_chart_bybit  CandlestickChart fed by a websocket kline stream   *)
(*                      (ui/chart.rs, models/candle.rs, main.rs)           *)
(*   kline_chart        CandlestickChart fed by a random-walk generator    *)
(*                      (main.rs)                                          *)
(*                                                                         *)
(* Prices are integers (price units); a moving average is the exact        *)
(* quotient sum/count kept as a reduced fraction [num, den], and the       *)
(* quotient by zero is NaN.  A kline's numeric fields are strings, kept    *)
(* as sequences of characters, and parsed digit by digit.                  *)
(***************************************************************************)
EXTENDS Integers, Sequences, FiniteSets, TLC

\* ------------------------------------------------------------------------
\* Bounds of the model
\* ------------------------------------------------------------------------
MaxVisibleRange == 4   \* visible_range is drawn from 1..MaxVisibleRange
MA_WINDOW_SIZE == 3    \* span of the moving average (scaled down from 50)
MaxUpdates == 4        \* updates that reach one chart state
PriceStep == 1         \* size of a random price movement of the generator
MaxLoopRange == 2      \* visible_range of the driver loop: 1..MaxLoopRange
MaxFed == 3            \* kline entries the feed delivers to the driver loop
MaxData == 2           \* entries of one kline message
MaxInbox == 1          \* websocket messages delivered and not yet read
MaxKeys == 1           \* terminal events pressed and not yet read
SleepTicks == 2        \* clock ticks of the 100 ms sleep
MaxStrLen == 8         \* length of the argument of length_of_longest_substring
MaxDrawnUpdates == 3   \* updates that reach a chart state of which a frame is drawn

INITIAL_PRICE == 100

\* ------------------------------------------------------------------------
\* Helpers
\* ------------------------------------------------------------------------
Min(a, b) == IF a < b THEN a ELSE b

Max(a, b) == IF a > b THEN a ELSE b

Abs(a) == IF a < 0 THEN -a ELSE a

RECURSIVE Gcd(_, _)
Gcd(a, b) == IF b = 0 THEN a ELSE Gcd(b, a % b)

\* usize::saturating_sub
SaturatingSub(a, b) == IF a >= b THEN a - b ELSE 0

\* slice[start..] with a 0-based start index
SliceFrom(s, start) == SubSeq(s, start + 1, Len(s))

\* Vec::pop() in the place of Vec::remove(0)
RemoveFirst_Last(s) == SubSeq(s, 1, Len(s) - 1)

\* Vec::remove(0) on a non-empty vector
RemoveFirst(s) == SubSeq(s, 2, Len(s))

\* f64 quotient of two integers: the exact rational, reduced; x/0 is NaN
NaN == [num |-> 0, den |-> 0]

F64Div(sum, count) ==
    IF count = 0 THEN NaN
    ELSE LET g == Gcd(Abs(sum), count)
         IN  [num |-> sum \div g, den |-> count \div g]

\* ------------------------------------------------------------------------
\* models/candle.rs, models/websocket.rs
\* ------------------------------------------------------------------------
Digits == <<"0", "1", "2", "3", "4", "5", "6", "7", "8", "9">>

IsDigit(ch) == \E i \in 1..10 : Digits[i] = ch

DigitVal(ch) == (CHOOSE i \in 1..10 : Digits[i] = ch) - 1

RECURSIVE DecimalValue(_)
DecimalValue(s) ==
    IF s = <<>> THEN 0
    ELSE 10 * DecimalValue(SubSeq(s, 1, Len(s) - 1)) + DigitVal(s[Len(s)])

\* str::parse::<f64>().ok() on the strings of the model's alphabet
ParseF64(s) ==
    IF s # <<>> /\ \A i \in 1..Len(s) : IsDigit(s[i])
    THEN [ok |-> TRUE, val |-> DecimalValue(s)]
    ELSE [ok |-> FALSE, val |-> 0]

Candle(o, h, l, c) == [open |-> o, high |-> h, low |-> l, close |-> c]

KlineData(o, h, l, c, confirm) ==
    [open |-> o, high |-> h, low |-> l, close |-> c, confirm |-> confirm]

\* unwrap_or(0.0) in the place of `?`
from_kline_data_Default(data) ==
    [ok |-> TRUE,
     val |-> Candle(ParseF64(data.open).val, ParseF64(data.high).val,
                    ParseF64(data.low).val, ParseF64(data.close).val)]

\* Candle::from_kline_data: None as soon as one field fails to parse
from_kline_data(data) ==
    LET o == ParseF64(data.open)
        h == ParseF64(data.high)
        l == ParseF64(data.low)
        c == ParseF64(data.close)
    IN  IF o.ok /\ h.ok /\ l.ok /\ c.ok
        THEN [ok |-> TRUE, val |-> Candle(o.val, h.val, l.val, c.val)]
        ELSE [ok |-> FALSE, val |-> Candle(0, 0, 0, 0)]

\* A field of the kline does not parse as a number
Malformed(data) ==
    \/ ~ParseF64(data.open).ok
    \/ ~ParseF64(data.high).ok
    \/ ~ParseF64(data.low).ok
    \/ ~ParseF64(data.close).ok

is_bullish(candle) == candle.close >= candle.open

\* The strings the feed of the model sends
S9 == <<"9">>
S10 == <<"1", "0">>
S12 == <<"1", "2">>
S20 == <<"2", "0">>
S21 == <<"2", "1">>
S29 == <<"2", "9">>
S30 == <<"3", "0">>
S40 == <<"4", "0">>
S41 == <<"4", "1">>
S42 == <<"4", "2">>
SBad == <<"1", "x">>
SEmpty == <<>>

\* open, high, low, close of the klines of the model
KlineFields ==
    { <<S10, S10, S10, S10>>,    \* flat, high = low
      <<S10, S21, S10, S20>>,    \* bullish
      <<S40, S41, S29, S30>>,    \* bearish
      <<S30, S42, S30, S40>>,    \* bullish
      <<S10, S12, S9, SBad>>,    \* close does not parse
      <<SEmpty, S21, S10, S20>> } \* open does not parse

Klines ==
    { KlineData(f[1], f[2], f[3], f[4], b) : f \in KlineFields, b \in BOOLEAN }

\* ------------------------------------------------------------------------
\* State
\* ------------------------------------------------------------------------
VARIABLES
    program,        \* "bybit" (kline_chart_bybit) or "sim" (kline_chart)
    candles,        \* CandlestickChart.candles
    visible_range,  \* CandlestickChart.visible_range
    ma50_values,    \* CandlestickChart.ma50_values
    last_price,     \* CandlestickChart.last_price (kline_chart only)
    panicked,       \* an update has panicked
    seed,           \* history: the candles the chart was constructed with
    applied,        \* history: the updates that reached the chart state
    last_call,      \* history: outcome of the latest call of an update
    last_malformed, \* history: a field of the latest update did not parse
    drawn,          \* the draw plan rendered since the latest update
    lls_input,      \* length_of_longest_substring: the argument s
    lls_result,     \* length_of_longest_substring: the value returned
    pc,             \* run_event_loop: position of the driver loop
    inbox,          \* websocket messages delivered and not yet read
    pending,        \* response.data entries the for loop has still to visit
    timer,          \* clock ticks left of the sleep of this loop iteration
    keys,           \* terminal events pressed and not yet read
    exit_by,        \* history: what ended the driver loop
    fed             \* history: entries of the kline messages delivered

chartState == <<program, candles, visible_range, ma50_values, last_price,
                panicked, seed, applied, last_call, last_malformed>>

\* What neither a chart update nor the driver loop touches
restState == <<lls_input, lls_result>>

loopState == <<pc, inbox, pending, timer, keys, exit_by, fed>>

vars == <<program, candles, visible_range, ma50_values, last_price, panicked,
          seed, applied, last_call, last_malformed, drawn, lls_input,
          lls_result, pc, inbox, pending, timer, keys, exit_by, fed>>

\* No frame rendered since the latest update
NoPlan ==
    [rendered |-> FALSE, waiting |-> FALSE, ranged |-> FALSE,
     x_bounds |-> <<>>, y_bounds |-> <<>>, labels |-> <<>>, wicks |-> <<>>,
     bodies |-> <<>>, ma_line |-> <<>>, indicators |-> <<>>]

\* length_of_longest_substring not called yet
NoResult == -1

\* ------------------------------------------------------------------------
\* ui/chart.rs: CandlestickChart (kline_chart_bybit)
\* ------------------------------------------------------------------------
\* update_from_kline, lines 33-45: Vec::remove(0) panics on an empty vector
RemovePanics(cs, vr, confirm) == confirm /\ Len(cs) >= vr /\ cs = <<>>

\* the window never evicts
WindowAfterUpdate_NoEvict(cs, vr, candle, confirm) ==
    IF confirm
    THEN cs \o <<candle>>
    ELSE IF cs # <<>>
         THEN [cs EXCEPT ![Len(cs)] = candle]
         ELSE <<candle>>

\* the test of kline_data.confirm inverted
WindowAfterUpdate_Swapped(cs, vr, candle, confirm) ==
    IF ~confirm
    THEN (IF Len(cs) >= vr THEN RemoveFirst(cs) ELSE cs) \o <<candle>>
    ELSE IF cs # <<>>
         THEN [cs EXCEPT ![Len(cs)] = candle]
         ELSE <<candle>>

\* no push when a non-final update finds the window empty
WindowAfterUpdate_NoPush(cs, vr, candle, confirm) ==
    IF confirm
    THEN (IF Len(cs) >= vr THEN RemoveFirst(cs) ELSE cs) \o <<candle>>
    ELSE IF cs # <<>>
         THEN [cs EXCEPT ![Len(cs)] = candle]
         ELSE cs

\* a final update overwrites the last candle as a non-final one does
WindowAfterUpdate_Replace(cs, vr, candle, confirm) ==
    IF cs # <<>>
    THEN [cs EXCEPT ![Len(cs)] = candle]
    ELSE <<candle>>

\* a full window loses two candles for the one pushed
WindowAfterUpdate_EvictTwo(cs, vr, candle, confirm) ==
    IF confirm
    THEN (IF Len(cs) >= vr THEN RemoveFirst(RemoveFirst(cs)) ELSE cs)
             \o <<candle>>
    ELSE IF cs # <<>>
         THEN [cs EXCEPT ![Len(cs)] = candle]
         ELSE <<candle>>

\* update_from_kline, lines 33-45: the window after the update
WindowAfterUpdate(cs, vr, candle, confirm) ==
    IF confirm
    THEN (IF Len(cs) >= vr THEN RemoveFirst(cs) ELSE cs) \o <<candle>>
    ELSE IF cs # <<>>
         THEN [cs EXCEPT ![Len(cs)] = candle]
         ELSE <<candle>>

RECURSIVE SumClose(_)
SumClose(cs) == IF cs = <<>> THEN 0 ELSE cs[1].close + SumClose(Tail(cs))

\* pop_back in the place of pop_front
RECURSIVE PopFrontWhileOver_Back(_, _)
PopFrontWhileOver_Back(q, vr) ==
    IF Len(q) > vr
    THEN PopFrontWhileOver_Back(SubSeq(q, 1, Len(q) - 1), vr)
    ELSE q

RECURSIVE PopFrontWhileOver(_, _)
PopFrontWhileOver(q, vr) ==
    IF Len(q) > vr THEN PopFrontWhileOver(Tail(q), vr) ELSE q

\* the count of all the candles of the window
Ma50Count_Whole(cs) == Len(cs)

\* calculate_ma50: count, the number of closes the sum is divided by
Ma50Count(cs) == Len(cs) - SaturatingSub(Len(cs), MA_WINDOW_SIZE)

\* the sum always divided by MA_WINDOW_SIZE
Ma50Of_NoWarmup(cs) ==
    LET start_idx == SaturatingSub(Len(cs), MA_WINDOW_SIZE)
        sum == SumClose(SliceFrom(cs, start_idx))
    IN  F64Div(sum, MA_WINDOW_SIZE)

\* calculate_ma50: the average appended for the window cs
Ma50Of(cs) ==
    LET start_idx == SaturatingSub(Len(cs), MA_WINDOW_SIZE)
        sum == SumClose(SliceFrom(cs, start_idx))
        count == Ma50Count(cs)
    IN  F64Div(sum, count)

\* calculate_ma50: the series after the recomputation
calculate_ma50(ma, cs, vr) == PopFrontWhileOver(Append(ma, Ma50Of(cs)), vr)

update_from_kline(kline_data) ==
    /\ program = "bybit"
    /\ pc = "off"
    /\ ~panicked
    /\ Len(applied) < MaxUpdates
    /\ LET parsed == from_kline_data(kline_data)
       IN  IF ~parsed.ok
           THEN /\ last_call' = "dropped"
                /\ UNCHANGED <<candles, ma50_values, panicked, applied>>
           ELSE IF RemovePanics(candles, visible_range, kline_data.confirm)
           THEN /\ panicked' = TRUE
                /\ last_call' = "panicked"
                /\ UNCHANGED <<candles, ma50_values, applied>>
           ELSE /\ candles' = WindowAfterUpdate(candles, visible_range,
                                                parsed.val, kline_data.confirm)
                /\ ma50_values' = calculate_ma50(ma50_values, candles',
                                                 visible_range)
                /\ applied' = Append(applied, [bar |-> parsed.val,
                                               confirm |-> kline_data.confirm])
                /\ last_call' = "applied"
                /\ UNCHANGED panicked
    /\ last_malformed' = Malformed(kline_data)
    /\ drawn' = NoPlan
    /\ UNCHANGED <<program, visible_range, last_price, seed>>
    /\ UNCHANGED loopState
    /\ UNCHANGED restState

UpdateFromKline == \E kline_data \in Klines : update_from_kline(kline_data)

\* ------------------------------------------------------------------------
\* kline_chart/src/main.rs: CandlestickChart (random-walk generator)
\* ------------------------------------------------------------------------
initial_candle == Candle(INITIAL_PRICE, 105, 98, 103)

\* generate_new_candle, lines 98-102: push, then drop the oldest when over
WindowAfterGenerate(cs, vr, candle) ==
    LET pushed == Append(cs, candle)
    IN  IF Len(pushed) > vr THEN RemoveFirst(pushed) ELSE pushed

\* generate_new_candle with the three random draws as parameters
generate_new_candle(movement, up, down) ==
    /\ program = "sim"
    /\ Len(applied) < MaxUpdates
    /\ LET new_price == last_price + movement
           new_candle == Candle(last_price, new_price + up, new_price - down,
                                new_price)
       IN  /\ last_price' = new_price
           /\ candles' = WindowAfterGenerate(candles, visible_range, new_candle)
           /\ ma50_values' = calculate_ma50(ma50_values, candles', visible_range)
           /\ applied' = Append(applied, [bar |-> new_candle, confirm |-> TRUE])
           /\ last_call' = "applied"
    /\ last_malformed' = FALSE
    /\ drawn' = NoPlan
    /\ UNCHANGED <<program, visible_range, panicked, seed>>
    /\ UNCHANGED loopState
    /\ UNCHANGED restState

GenerateNewCandle ==
    \E movement \in {-PriceStep, PriceStep}, up \in 0..1, down \in 0..1 :
        generate_new_candle(movement, up, down)

\* ------------------------------------------------------------------------
\* ui/chart.rs and kline_chart/src/main.rs: draw
\* ------------------------------------------------------------------------
num_labels == 5

\* f64 arithmetic as exact rational arithmetic
Q(n) == [num |-> n, den |-> 1]

QAdd(a, b) == F64Div(a.num * b.den + b.num * a.den, a.den * b.den)

QSub(a, b) == F64Div(a.num * b.den - b.num * a.den, a.den * b.den)

QMul(a, b) == F64Div(a.num * b.num, a.den * b.den)

\* draw, lines 67-71: the slice of the window that is drawn
VisibleCandles(cs, vr) ==
    IF cs # <<>> THEN SliceFrom(cs, SaturatingSub(Len(cs), vr)) ELSE <<>>

\* the placeholder also for a slice of one candle
IsWaiting_Short(prog, visible) == prog = "bybit" /\ Len(visible) <= 1

\* draw, line 73: kline_chart_bybit returns the placeholder for an empty
\* slice; the draw of kline_chart has no such branch
IsWaiting(prog, visible) == prog = "bybit" /\ visible = <<>>

\* draw, lines 74-82
WaitingPlan ==
    [rendered |-> TRUE, waiting |-> TRUE, ranged |-> FALSE,
     x_bounds |-> <<Q(0), Q(1)>>, y_bounds |-> <<Q(0), Q(1)>>,
     labels |-> <<[x |-> Q(0), y |-> F64Div(1, 2),
                   text |-> "Waiting for data..."]>>,
     wicks |-> <<>>, bodies |-> <<>>, ma_line |-> <<>>, indicators |-> <<>>]

\* calculate_price_range: the folds from INFINITY and NEG_INFINITY over a
\* slice that is not empty
RECURSIVE MinLow(_)
MinLow(cs) ==
    IF Len(cs) = 1 THEN cs[1].low ELSE Min(cs[1].low, MinLow(Tail(cs)))

RECURSIVE MaxHigh(_)
MaxHigh(cs) ==
    IF Len(cs) = 1 THEN cs[1].high ELSE Max(cs[1].high, MaxHigh(Tail(cs)))

calculate_price_range(cs) ==
    [min_price |-> MinLow(cs), max_price |-> MaxHigh(cs)]

\* the padding taken off the top and added to the bottom
calculate_y_bounds_Inward(min_price, max_price) ==
    LET price_range == max_price - min_price
        padding == F64Div(price_range, 10)
    IN  [y_min |-> QAdd(Q(min_price), padding),
         y_max |-> QSub(Q(max_price), padding)]

calculate_y_bounds(min_price, max_price) ==
    LET price_range == max_price - min_price
        padding == F64Div(price_range, 10)
    IN  [y_min |-> QSub(Q(min_price), padding),
         y_max |-> QAdd(Q(max_price), padding)]

\* for i in 0..=num_labels
draw_price_labels(x, y_min, y_max) ==
    [k \in 1..(num_labels + 1) |->
        LET i == k - 1
            price == QAdd(y_min, QMul(QSub(y_max, y_min), F64Div(i, num_labels)))
        IN  [x |-> QAdd(Q(x), F64Div(1, 2)), y |-> price, text |-> "price"]]

Color(candle) == IF is_bullish(candle) THEN "Green" ELSE "Red"

\* x is the 0-based index of the candle, width is 0.8
draw_candle_wick(x, candle) ==
    [x1 |-> QAdd(Q(x), F64Div(4, 10)), y1 |-> candle.low,
     x2 |-> QAdd(Q(x), F64Div(4, 10)), y2 |-> candle.high,
     color |-> Color(candle)]

draw_flat_candle(x, price, color) ==
    [kind |-> "flat", x1 |-> Q(x), x2 |-> QAdd(Q(x), F64Div(8, 10)),
     top |-> price, bottom |-> price, fill |-> 0, color |-> color]

\* fill: the horizontal lines for y in (bottom*100) as i32..=(top*100) as i32
draw_filled_candle(x, top, bottom, color) ==
    [kind |-> "filled", x1 |-> Q(x), x2 |-> QAdd(Q(x), F64Div(8, 10)),
     top |-> top, bottom |-> bottom, fill |-> top * 100 - bottom * 100 + 1,
     color |-> color]

\* every body is drawn filled
draw_candle_body_Filled(x, candle) ==
    LET body_top == IF is_bullish(candle) THEN candle.close ELSE candle.open
        body_bottom == IF is_bullish(candle) THEN candle.open ELSE candle.close
    IN  draw_filled_candle(x, body_top, body_bottom, Color(candle))

\* (body_top - body_bottom).abs() < 0.001
draw_candle_body(x, candle) ==
    LET body_top == IF is_bullish(candle) THEN candle.close ELSE candle.open
        body_bottom == IF is_bullish(candle) THEN candle.open ELSE candle.close
    IN  IF Abs(body_top - body_bottom) * 1000 < 1
        THEN draw_flat_candle(x, body_top, Color(candle))
        ELSE draw_filled_candle(x, body_top, body_bottom, Color(candle))

\* the loop starts at i = 2
draw_ma50_line_From2(ma) ==
    [k \in 1..(Len(ma) - 2) |->
        [x1 |-> k, y1 |-> ma[k + 1], x2 |-> k + 1, y2 |-> ma[k + 2]]]

\* for i in 1..self.ma50_values.len(): get(i - 1) and get(i) are 0-based
draw_ma50_line(ma) ==
    [i \in 1..(Len(ma) - 1) |->
        [x1 |-> i - 1, y1 |-> ma[i], x2 |-> i, y2 |-> ma[i + 1]]]

draw_indicators(visible, ma, y_max) ==
    IF visible = <<>> THEN <<>>
    ELSE <<[x |-> Q(0), y |-> QMul(y_max, F64Div(95, 100)),
            value |-> Q(visible[Len(visible)].close)]>>
         \o (IF ma = <<>> THEN <<>>
             ELSE <<[x |-> Q(0), y |-> QMul(y_max, F64Div(90, 100)),
                     value |-> ma[Len(ma)]]>>)

\* What draw paints on the frame
DrawPlan(prog, cs, vr, ma) ==
    LET visible == IF prog = "bybit"
                   THEN VisibleCandles(cs, vr)
                   ELSE SliceFrom(cs, SaturatingSub(Len(cs), vr))
    IN  IF IsWaiting(prog, visible) THEN WaitingPlan
        ELSE LET range == calculate_price_range(visible)
                 y == calculate_y_bounds(range.min_price, range.max_price)
             IN  [rendered |-> TRUE, waiting |-> FALSE, ranged |-> TRUE,
                  x_bounds |-> <<Q(0), Q(Len(visible) + 2)>>,
                  y_bounds |-> <<y.y_min, y.y_max>>,
                  labels |-> draw_price_labels(Len(visible), y.y_min, y.y_max),
                  wicks |-> [i \in 1..Len(visible) |->
                                draw_candle_wick(i - 1, visible[i])],
                  bodies |-> [i \in 1..Len(visible) |->
                                 draw_candle_body(i - 1, visible[i])],
                  ma_line |-> draw_ma50_line(ma),
                  indicators |-> draw_indicators(visible, ma, y.y_max)]

\* terminal.draw(|frame| chart.draw(frame, frame.area())).
\* A frame drawn again before the next update is the same frame: the model
\* draws one frame for each chart state.
DrawChart ==
    /\ pc = "off"
    /\ ~panicked
    /\ ~drawn.rendered
    /\ Len(applied) <= MaxDrawnUpdates
    /\ drawn' = DrawPlan(program, candles, visible_range, ma50_values)
    /\ UNCHANGED chartState
    /\ UNCHANGED loopState
    /\ UNCHANGED restState

\* ------------------------------------------------------------------------
\* Specification of the two chart states
\* ------------------------------------------------------------------------
\* CandlestickChart::new(VISIBLE_RANGE) / new(vec![initial_candle], VISIBLE_RANGE)
Init ==
    /\ program \in {"bybit", "sim"}
    /\ visible_range \in 1..MaxVisibleRange
    /\ seed = IF program = "sim" THEN <<initial_candle>> ELSE <<>>
    /\ candles = seed
    /\ ma50_values = <<>>
    /\ last_price = IF program = "sim" THEN initial_candle.close ELSE 0
    /\ panicked = FALSE
    /\ applied = <<>>
    /\ last_call = "none"
    /\ last_malformed = FALSE
    /\ drawn = NoPlan
    /\ lls_input = <<>>
    /\ lls_result = NoResult
    /\ pc = "off"
    /\ inbox = <<>>
    /\ pending = <<>>
    /\ timer = 0
    /\ keys = <<>>
    /\ exit_by = "none"
    /\ fed = <<>>

Next == UpdateFromKline \/ GenerateNewCandle

Spec == Init /\ [][Next]_vars

TypeOK ==
    /\ program \in {"bybit", "sim"}
    /\ visible_range \in 1..MaxVisibleRange
    /\ Len(candles) <= MaxUpdates + 1
    /\ Len(ma50_values) <= MaxUpdates
    /\ panicked \in BOOLEAN
    /\ last_call \in {"none", "applied", "dropped", "panicked"}

\* The chart states with the frames drawn between the updates
NextRender == UpdateFromKline \/ GenerateNewCandle \/ DrawChart

SpecRender == Init /\ [][NextRender]_vars

\* CandlestickChart::new(visible_range) with any capacity, 0 included
InitAnyCap ==
    /\ program = "bybit"
    /\ visible_range \in 0..MaxVisibleRange
    /\ seed = <<>>
    /\ candles = <<>>
    /\ ma50_values = <<>>
    /\ last_price = 0
    /\ panicked = FALSE
    /\ applied = <<>>
    /\ last_call = "none"
    /\ last_malformed = FALSE
    /\ drawn = NoPlan
    /\ lls_input = <<>>
    /\ lls_result = NoResult
    /\ pc = "off"
    /\ inbox = <<>>
    /\ pending = <<>>
    /\ timer = 0
    /\ keys = <<>>
    /\ exit_by = "none"
    /\ fed = <<>>

NextAnyCap == UpdateFromKline

SpecAnyCap == InitAnyCap /\ [][NextAnyCap]_vars

\* ------------------------------------------------------------------------
\* kline_chart_bybit/src/main.rs: run_event_loop, check_quit
\* ------------------------------------------------------------------------
\* What read.next() yields.  "kline" is a text frame that deserializes to a
\* KlineResponse, "text" a text frame that does not, "other" any other
\* frame, "error" is Some(Err(e)) and "closed" is None.
Msg(kind, data) == [kind |-> kind, data |-> data]

\* The entries the feed of the model sends: a confirmed bar, a bar that is
\* still open, an entry that does not parse
LoopKlines ==
    { KlineData(S10, S21, S10, S20, TRUE),
      KlineData(S40, S41, S29, S30, FALSE),
      KlineData(S10, S12, S9, SBad, FALSE) }

DataLists == UNION { [1..n -> LoopKlines] : n \in 0..MaxData }

Messages ==
    { Msg("kline", d) : d \in DataLists }
        \cup { Msg(k, <<>>) : k \in {"text", "other", "error", "closed"} }

IsTerminal(m) == m.kind \in {"error", "closed"}

\* The stream yields nothing after None or an error
StreamEnded == \E i \in 1..Len(inbox) : IsTerminal(inbox[i])

\* The websocket delivers one more message.  The loop looks at the stream
\* and at the keyboard only while it awaits the select!, so an arrival is
\* taken at that point.
Deliver(m) ==
    /\ pc = "select"
    /\ Len(inbox) < MaxInbox
    /\ ~StreamEnded
    /\ Len(fed) + Len(m.data) <= MaxFed
    /\ inbox' = Append(inbox, m)
    /\ fed' = fed \o m.data
    /\ UNCHANGED <<pc, pending, timer, keys, exit_by>>
    /\ UNCHANGED chartState
    /\ UNCHANGED <<drawn, lls_input, lls_result>>

FeedDelivers == \E m \in Messages : Deliver(m)

\* A key is pressed on the terminal
Press(key) ==
    /\ pc = "select"
    /\ Len(keys) < MaxKeys
    /\ keys' = Append(keys, key)
    /\ UNCHANGED <<pc, inbox, pending, timer, exit_by, fed>>
    /\ UNCHANGED chartState
    /\ UNCHANGED <<drawn, lls_input, lls_result>>

KeyPressed == \E key \in {"q", "x"} : Press(key)

\* Time passes while the loop awaits the select!
Tick ==
    /\ pc = "select"
    /\ timer > 0
    /\ timer' = timer - 1
    /\ UNCHANGED <<pc, inbox, pending, keys, exit_by, fed>>
    /\ UNCHANGED chartState
    /\ UNCHANGED <<drawn, lls_input, lls_result>>

\* select!: the branch `msg = read.next()` is ready
MsgBranchReady == pc = "select" /\ inbox # <<>>

\* the sleep branch served while the message branch is still at work
SleepBranchReady_Anytime == pc \in {"select", "entries", "recalc"} /\ timer = 0

\* select!: the branch `sleep(100 ms)` is ready
SleepBranchReady == pc = "select" /\ timer = 0

\* no break on None and on an error
PcAfterMsg_NoBreak(m) ==
    IF m.kind = "kline" /\ m.data # <<>> THEN "entries" ELSE "select"

\* lines 80-95: where the loop goes with the message read
PcAfterMsg(m) ==
    IF IsTerminal(m) THEN "done"
    ELSE IF m.kind = "kline" /\ m.data # <<>> THEN "entries"
    ELSE "select"

\* lines 79-95: the message branch; the next iteration makes a new sleep
SelectMsg ==
    /\ MsgBranchReady
    /\ LET m == Head(inbox)
       IN  /\ inbox' = Tail(inbox)
           /\ pc' = PcAfterMsg(m)
           /\ pending' = IF m.kind = "kline" THEN m.data ELSE <<>>
           /\ timer' = IF pc' = "select" THEN SleepTicks ELSE timer
           /\ exit_by' = IF IsTerminal(m) THEN "feed" ELSE exit_by
    /\ UNCHANGED <<keys, fed>>
    /\ UNCHANGED chartState
    /\ UNCHANGED <<drawn, lls_input, lls_result>>

\* the entries visited from the back
NextEntry_Last(entries) == entries[Len(entries)]

\* the for loop of lines 84-86: the entry it visits next
NextEntry(entries) == Head(entries)

\* lines 84-86 and chart.rs 32-45: one entry, up to the window mutation
ApplyEntry ==
    /\ pc = "entries"
    /\ LET kline_data == NextEntry(pending)
           parsed == from_kline_data(kline_data)
           rest == Tail(pending)
       IN  IF ~parsed.ok
           THEN /\ last_call' = "dropped"
                /\ pending' = rest
                /\ pc' = IF rest = <<>> THEN "select" ELSE "entries"
                /\ timer' = IF rest = <<>> THEN SleepTicks ELSE timer
                /\ UNCHANGED <<candles, panicked, exit_by>>
           ELSE IF RemovePanics(candles, visible_range, kline_data.confirm)
           THEN /\ panicked' = TRUE
                /\ last_call' = "panicked"
                /\ pc' = "done"
                /\ exit_by' = "panic"
                /\ UNCHANGED <<candles, pending, timer>>
           ELSE /\ candles' = WindowAfterUpdate(candles, visible_range,
                                                parsed.val, kline_data.confirm)
                /\ pc' = "recalc"
                /\ UNCHANGED <<panicked, last_call, pending, timer, exit_by>>
    /\ last_malformed' = Malformed(NextEntry(pending))
    /\ UNCHANGED <<program, visible_range, ma50_values, last_price, seed,
                   applied, inbox, keys, fed>>
    /\ UNCHANGED <<drawn, lls_input, lls_result>>

\* chart.rs 46: calculate_ma50 ends the update of the entry
Recalc ==
    /\ pc = "recalc"
    /\ LET kline_data == NextEntry(pending)
           parsed == from_kline_data(kline_data)
           rest == Tail(pending)
       IN  /\ ma50_values' = calculate_ma50(ma50_values, candles, visible_range)
           /\ applied' = Append(applied, [bar |-> parsed.val,
                                          confirm |-> kline_data.confirm])
           /\ last_call' = "applied"
           /\ pending' = rest
           /\ pc' = IF rest = <<>> THEN "select" ELSE "entries"
           /\ timer' = IF rest = <<>> THEN SleepTicks ELSE timer
    /\ UNCHANGED <<program, candles, visible_range, last_price, panicked, seed,
                   last_malformed, inbox, keys, exit_by, fed>>
    /\ UNCHANGED <<drawn, lls_input, lls_result>>

\* check_quit: poll(0), then read one event; true for the key 'q'
check_quit(events) == events # <<>> /\ Head(events) = "q"

\* lines 99-103: the sleep branch up to the quit check
SelectSleep ==
    /\ SleepBranchReady
    /\ pc' = IF check_quit(keys) THEN "done" ELSE "draw"
    /\ keys' = IF keys # <<>> THEN Tail(keys) ELSE keys
    /\ exit_by' = IF check_quit(keys) THEN "quit" ELSE exit_by
    /\ UNCHANGED <<inbox, pending, timer, fed>>
    /\ UNCHANGED chartState
    /\ UNCHANGED <<drawn, lls_input, lls_result>>

\* lines 105-107: terminal.draw, then the next iteration makes a new sleep
Draw ==
    /\ pc = "draw"
    /\ pc' = "select"
    /\ timer' = SleepTicks
    /\ UNCHANGED <<inbox, pending, keys, exit_by, fed>>
    /\ UNCHANGED chartState
    /\ UNCHANGED <<drawn, lls_input, lls_result>>

\* main: CandlestickChart::new(VISIBLE_RANGE), then run_event_loop
InitLoop ==
    /\ program = "bybit"
    /\ visible_range \in 1..MaxLoopRange
    /\ seed = <<>>
    /\ candles = <<>>
    /\ ma50_values = <<>>
    /\ last_price = 0
    /\ panicked = FALSE
    /\ applied = <<>>
    /\ last_call = "none"
    /\ last_malformed = FALSE
    /\ drawn = NoPlan
    /\ lls_input = <<>>
    /\ lls_result = NoResult
    /\ pc = "select"
    /\ inbox = <<>>
    /\ pending = <<>>
    /\ timer = SleepTicks
    /\ keys = <<>>
    /\ exit_by = "none"
    /\ fed = <<>>

NextLoop ==
    \/ FeedDelivers
    \/ KeyPressed
    \/ Tick
    \/ SelectMsg
    \/ ApplyEntry
    \/ Recalc
    \/ SelectSleep
    \/ Draw

SpecLoop == InitLoop /\ [][NextLoop]_vars

\* The clock advances and the loop runs whenever it can; select! polls its
\* ready branches in random order, so a branch that is ready again and
\* again is eventually taken.
SpecLoopFair ==
    /\ InitLoop
    /\ [][NextLoop]_vars
    /\ WF_vars(Tick)
    /\ SF_vars(SelectMsg)
    /\ SF_vars(SelectSleep)
    /\ WF_vars(ApplyEntry)
    /\ WF_vars(Recalc)
    /\ WF_vars(Draw)

TypeOKLoop ==
    /\ pc \in {"select", "entries", "recalc", "draw", "done"}
    /\ timer \in 0..SleepTicks
    /\ Len(inbox) <= MaxInbox
    /\ Len(fed) <= MaxFed

\* ------------------------------------------------------------------------
\* string/length_of_longest_substring_003/src/main.rs
\* ------------------------------------------------------------------------
Alphabet == {"a", "b", "c"}

Strings == UNION { [1..n -> Alphabet] : n \in 0..MaxStrLen }

\* on a repeated character the window restarts at j
RECURSIVE LlsLoop_Restart(_, _, _, _, _)
LlsLoop_Restart(chars, set, max_len, i, j) ==
    IF ~(j < Len(chars)) THEN max_len
    ELSE IF chars[j + 1] \notin set
    THEN LlsLoop_Restart(chars, set \cup {chars[j + 1]},
                         Max(max_len, Cardinality(set) + 1), i, j + 1)
    ELSE LlsLoop_Restart(chars, {}, max_len, j, j)

\* the while loop of lines 12-21; i and j are 0-based
RECURSIVE LlsLoop(_, _, _, _, _)
LlsLoop(chars, set, max_len, i, j) ==
    IF ~(j < Len(chars)) THEN max_len
    ELSE IF chars[j + 1] \notin set
    THEN LlsLoop(chars, set \cup {chars[j + 1]},
                 Max(max_len, Cardinality(set) + 1), i, j + 1)
    ELSE LlsLoop(chars, set \ {chars[i + 1]}, max_len, i + 1, j)

length_of_longest_substring(s) == LlsLoop(s, {}, 0, 0, 0)

\* Solution::length_of_longest_substring(s) is called
CallLongestSubstring ==
    /\ lls_result = NoResult
    /\ lls_result' = length_of_longest_substring(lls_input)
    /\ UNCHANGED lls_input
    /\ UNCHANGED chartState
    /\ UNCHANGED loopState
    /\ UNCHANGED drawn

InitLongest ==
    /\ lls_input \in Strings
    /\ lls_result = NoResult
    /\ program = "bybit"
    /\ visible_range = 1
    /\ seed = <<>>
    /\ candles = <<>>
    /\ ma50_values = <<>>
    /\ last_price = 0
    /\ panicked = FALSE
    /\ applied = <<>>
    /\ last_call = "none"
    /\ last_malformed = FALSE
    /\ drawn = NoPlan
    /\ pc = "off"
    /\ inbox = <<>>
    /\ pending = <<>>
    /\ timer = 0
    /\ keys = <<>>
    /\ exit_by = "none"
    /\ fed = <<>>

NextLongest == CallLongestSubstring

SpecLongest == InitLongest /\ [][NextLongest]_vars

\* ------------------------------------------------------------------------
\* Properties of the chart state
\* ------------------------------------------------------------------------
LastN(s, n) == SubSeq(s, Len(s) - n + 1, Len(s))

Bars(ups) == [i \in 1..Len(ups) |-> ups[i].bar]

AllFinal(ups) == \A i \in 1..Len(ups) : ups[i].confirm

RECURSIVE CloseTotal(_, _)
CloseTotal(cs, n) == IF n = 0 THEN 0 ELSE cs[n].close + CloseTotal(cs, n - 1)

\* The window after the updates ups, from the window sd
RECURSIVE WindowAfterAll(_, _, _, _)
WindowAfterAll(prog, vr, sd, ups) ==
    IF ups = <<>> THEN sd
    ELSE LET before == WindowAfterAll(prog, vr, sd, SubSeq(ups, 1, Len(ups) - 1))
             u == ups[Len(ups)]
         IN  IF prog = "bybit"
             THEN WindowAfterUpdate(before, vr, u.bar, u.confirm)
             ELSE WindowAfterGenerate(before, vr, u.bar)

\* Every average computed so far, one for each update of ups
AllAverages(prog, vr, sd, ups) ==
    [i \in 1..Len(ups) |->
        Ma50Of(WindowAfterAll(prog, vr, sd, SubSeq(ups, 1, i)))]

AfterUpdate == last_call = "applied"

\* C1: after every update of the chart state, the number of stored moving
\* averages equals the number of bars of the window.
C1_Lockstep == AfterUpdate => Len(ma50_values) = Len(candles)

\* C2: after every call of an update the window holds at most visible_range
\* bars.
C2_WindowBound ==
    last_call \in {"applied", "dropped"} => Len(candles) <= visible_range

C2_Witness ==
    /\ AfterUpdate
    /\ Len(applied) > visible_range
    /\ Len(candles) = visible_range
    /\ AllFinal(applied)

\* C3: on a non-empty window a non-final update overwrites the last bar only
\* and a final update appends its bar at the tail, the oldest bar being
\* evicted first when the window is at capacity.
C3_ReplaceVsAppend ==
    [][(program = "bybit" /\ Len(applied') = Len(applied) + 1 /\ candles # <<>>)
        => LET u == applied'[Len(applied')]
               n == Len(candles)
           IN  IF u.confirm
               THEN candles' = (IF n = visible_range THEN Tail(candles)
                                ELSE candles) \o <<u.bar>>
               ELSE /\ Len(candles') = n
                    /\ candles'[n] = u.bar
                    /\ \A i \in 1..(n - 1) : candles'[i] = candles[i]]_vars

C3_Witness ==
    /\ program = "bybit"
    /\ AfterUpdate
    /\ Len(applied) = 3
    /\ applied[1].confirm /\ applied[2].confirm /\ ~applied[3].confirm
    /\ applied[2].bar # applied[3].bar
    /\ candles = <<applied[1].bar, applied[3].bar>>

\* C4: after n final updates the window is, in order, the last
\* min(n, visible_range) bars of the input sequence (the seed candle of the
\* generator being the first bar of its input).
C4_EvictionOrder ==
    AllFinal(applied)
        => LET input == seed \o Bars(applied)
           IN  candles = LastN(input, Min(Len(input), visible_range))

C4_Witness ==
    /\ program = "bybit"
    /\ AfterUpdate
    /\ AllFinal(applied)
    /\ Len(applied) = visible_range + 2
    /\ candles = SubSeq(Bars(applied), 3, Len(applied))
    /\ applied[1].bar # applied[3].bar

\* C5: the average appended by an update is the arithmetic mean of close
\* over the last min(MA_WINDOW_SIZE, len) bars of the window as it stands
\* after the update.
C5_MovingAverage ==
    AfterUpdate
        => /\ ma50_values # <<>>
           /\ LET n == Min(MA_WINDOW_SIZE, Len(candles))
                  m == ma50_values[Len(ma50_values)]
              IN  /\ n > 0
                  /\ m.den > 0
                  /\ m.num * n = m.den * CloseTotal(LastN(candles, n), n)

\* closes 10, 20, 30 give 20 and a fourth close 40 gives 30; two bars give
\* the mean of the two
C5_Witness ==
    /\ AfterUpdate
    /\ AllFinal(applied)
    /\ Len(candles) > MA_WINDOW_SIZE
    /\ [i \in 1..Len(candles) |-> candles[i].close] = <<10, 20, 30, 40>>
    /\ ma50_values = <<[num |-> 10, den |-> 1], [num |-> 15, den |-> 1],
                       [num |-> 20, den |-> 1], [num |-> 30, den |-> 1]>>

\* C6: after k updates that reached the chart state the series holds the
\* min(k, visible_range) most recent averages.
C6_SeriesLength ==
    LET k == Len(applied)
        all == AllAverages(program, visible_range, seed, applied)
    IN  /\ Len(ma50_values) = Min(k, visible_range)
        /\ ma50_values = LastN(all, Min(k, visible_range))

C6_Witness ==
    /\ program = "bybit"
    /\ AfterUpdate
    /\ Len(applied) > visible_range
    /\ Len(ma50_values) = visible_range
    /\ \E i \in 1..Len(applied) : ~applied[i].confirm
    /\ Len(candles) < Len(ma50_values)

\* C11: an update one of whose open, high, low, close fields fails to parse
\* leaves the bar window and the moving-average series unchanged.
C11_MalformedDropped ==
    [][last_malformed' => UNCHANGED <<candles, ma50_values, applied>>]_vars

C11_Witness ==
    /\ program = "bybit"
    /\ last_malformed
    /\ last_call = "dropped"
    /\ Len(candles) >= 2
    /\ Len(ma50_values) >= 2

\* C12: for every capacity, 0 and 1 included, and every sequence of updates
\* from the empty state, update_from_kline completes without panicking.
C12_UpdateTotal == ~panicked

\* C19: a non-final update applied to an empty window yields a window of
\* exactly that bar and one moving average equal to its close.
C19_ReplaceLastOnEmpty ==
    [][(/\ program = "bybit"
        /\ candles = <<>>
        /\ Len(applied') = Len(applied) + 1
        /\ ~applied'[Len(applied')].confirm)
        => LET bar == applied'[Len(applied')].bar
           IN  /\ candles' = <<bar>>
               /\ ma50_values' = <<[num |-> bar.close, den |-> 1]>>]_vars

C19_Witness ==
    /\ program = "bybit"
    /\ AfterUpdate
    /\ Len(applied) = 1
    /\ ~applied[1].confirm
    /\ candles = <<applied[1].bar>>
    /\ Len(ma50_values) = 1

\* ------------------------------------------------------------------------
\* Properties of the driver loop
\* ------------------------------------------------------------------------
QuitPending == \E i \in 1..Len(keys) : keys[i] = "q"

\* C9: once a quit key press is pending, the driver loop eventually exits,
\* whatever the rate at which the feed keeps delivering messages.
C9_QuitEventuallyObserved == (pc = "select" /\ QuitPending) ~> (pc = "done")

\* The chart state after the updates applied so far
ChartAfterApplied ==
    LET k == Len(applied)
    IN  <<WindowAfterAll(program, visible_range, seed, applied),
          LastN(AllAverages(program, visible_range, seed, applied),
                Min(k, visible_range))>>

\* C7: a render observes a chart state produced by a whole number of
\* completed updates, never one between the window mutation and the
\* recomputation of the average nor one between two entries of a message.
C7_NoTornRead ==
    pc = "draw" => /\ pending = <<>>
                   /\ <<candles, ma50_values>> = ChartAfterApplied

C7_Witness ==
    /\ pc = "draw"
    /\ Len(applied) >= 2
    /\ inbox # <<>>

\* The updates the feed has delivered so far, in delivery order
RECURSIVE UpdatesOf(_)
UpdatesOf(entries) ==
    IF entries = <<>> THEN <<>>
    ELSE LET parsed == from_kline_data(Head(entries))
         IN  (IF parsed.ok
              THEN <<[bar |-> parsed.val, confirm |-> Head(entries).confirm]>>
              ELSE <<>>) \o UpdatesOf(Tail(entries))

FedUpdates == UpdatesOf(fed)

Quiescent == pc = "select" /\ inbox = <<>>

C8_WitnessTwice ==
    /\ Quiescent
    /\ Len(applied) >= 2
    /\ applied[1] = applied[2]

ReadsTerminal ==
    /\ pc = "select"
    /\ inbox # <<>>
    /\ IsTerminal(Head(inbox))
    /\ inbox' = Tail(inbox)

\* C10: when read.next() yields None or an error the loop exits, and once
\* it has exited the chart state is never updated again.
C10_FeedTermination ==
    [][/\ ReadsTerminal => (pc' = "done" /\ UNCHANGED <<candles, ma50_values,
                                                        applied>>)
       /\ pc = "done" => (pc' = "done" /\ UNCHANGED <<candles, ma50_values,
                                                      applied>>)]_vars

C10_Witness ==
    /\ pc = "done"
    /\ exit_by = "feed"
    /\ inbox = <<>>
    /\ applied # <<>>
    /\ <<candles, ma50_values>> = ChartAfterApplied

\* An update has just been applied to the chart state
Applies == Len(applied') = Len(applied) + 1

C22_LengthMonotone ==
    [][/\ Len(candles') >= Len(candles)
       /\ Len(candles') <= Len(candles) + 1
       /\ Len(candles) = visible_range => Len(candles') = visible_range
       /\ candles # <<>> => candles' # <<>>]_vars

\* the window is full and has evicted
C22_Witness ==
    /\ AfterUpdate
    /\ visible_range >= 2
    /\ Len(candles) = visible_range
    /\ AllFinal(applied)
    /\ Len(applied) > visible_range

\* a non-final update of a full window
C22_WitnessNonFinal ==
    /\ program = "bybit"
    /\ AfterUpdate
    /\ Len(candles) = visible_range
    /\ Len(applied) > visible_range
    /\ ~applied[Len(applied)].confirm

\* C23: with visible_range >= 1, whenever the moving average is recomputed
\* the number of bars it divides by is in 1..MA_WINDOW_SIZE: the window is not
\* empty and the average is a number.
C23_DivisorRange ==
    [][Applies
        => /\ candles' # <<>>
           /\ Ma50Count(candles') \in 1..MA_WINDOW_SIZE
           /\ Ma50Count(candles') <= Len(candles')
           /\ ma50_values' # <<>>
           /\ ma50_values'[Len(ma50_values')] # NaN]_vars

\* the divisor is capped by MA_WINDOW_SIZE
C23_Witness ==
    /\ AfterUpdate
    /\ Len(candles) > MA_WINDOW_SIZE
    /\ Ma50Count(candles) = MA_WINDOW_SIZE
    /\ ma50_values[Len(ma50_values)].den > 0

\* the divisor is 1
C23_WitnessOne ==
    /\ program = "bybit"
    /\ AfterUpdate
    /\ Len(candles) = 1
    /\ Ma50Count(candles) = 1
    /\ ma50_values[Len(ma50_values)] = [num |-> candles[1].close, den |-> 1]

\* ------------------------------------------------------------------------
\* Properties of the frames drawn
\* ------------------------------------------------------------------------
\* A frame of the chart has been drawn and it is not the placeholder
Charted == drawn.rendered /\ ~drawn.waiting

\* The bars of the window that fit the visible range
Shown == LastN(candles, Min(Len(candles), visible_range))

\* C13: a frame drawn from an empty window is exactly the "waiting"
\* placeholder (one label, no candle, no moving-average line, no price
\* range), and a frame drawn from a non-empty window is never the placeholder.
C13_EmptySnapshot ==
    drawn.rendered =>
        IF candles = <<>>
        THEN /\ drawn.waiting
             /\ Len(drawn.labels) = 1
             /\ drawn.labels[1].text = "Waiting for data..."
             /\ drawn.wicks = <<>>
             /\ drawn.bodies = <<>>
             /\ drawn.ma_line = <<>>
             /\ drawn.indicators = <<>>
             /\ ~drawn.ranged
        ELSE /\ ~drawn.waiting
             /\ drawn.ranged
             /\ Len(drawn.wicks) = Len(Shown)
             /\ \A i \in 1..Len(drawn.labels) :
                    drawn.labels[i].text # "Waiting for data..."

C13_Witness ==
    /\ program = "bybit"
    /\ applied = <<>>
    /\ candles = <<>>
    /\ drawn.rendered
    /\ drawn.waiting

C13_WitnessOneBar ==
    /\ program = "bybit"
    /\ Len(candles) = 1
    /\ drawn.rendered
    /\ ~drawn.waiting

\* C14: a frame draws every visible bar whose open equals its close as one
\* flat horizontal mark and every other bar as a filled body; a flat bar
\* never gets a filled rectangle.
C14_FlatBar ==
    Charted =>
        /\ Len(drawn.bodies) = Len(Shown)
        /\ \A i \in 1..Len(Shown) :
              LET bar == Shown[i]
                  body == drawn.bodies[i]
              IN  IF bar.open = bar.close
                  THEN /\ body.kind = "flat"
                       /\ body.fill = 0
                       /\ body.top = bar.open
                       /\ body.bottom = bar.open
                  ELSE /\ body.kind = "filled"
                       /\ body.top = Max(bar.open, bar.close)
                       /\ body.bottom = Min(bar.open, bar.close)
                       /\ body.fill >= 1

C14_Witness ==
    /\ Charted
    /\ \E i, j \in 1..Len(Shown) :
          /\ Shown[i].open = Shown[i].close
          /\ drawn.bodies[i].kind = "flat"
          /\ Shown[j].open # Shown[j].close
          /\ drawn.bodies[j].kind = "filled"

\* The bar of slot x (0-based) of the frame was written by update Writers[x + 1]
Writers ==
    WindowAfterAll("bybit", visible_range, <<>>,
                   [i \in 1..Len(applied) |->
                       [bar |-> i, confirm |-> applied[i].confirm]])

\* C16: in every frame the moving-average value drawn at x-slot i is the
\* average that was computed when the bar drawn at x-slot i was the newest bar
\* of the window, after any sequence of final and non-final updates.
C16_Alignment ==
    (program = "bybit" /\ Charted) =>
        LET avgs == AllAverages("bybit", visible_range, seed, applied)
            Aligned(x, y) == x < Len(Writers) /\ y = avgs[Writers[x + 1]]
        IN  \A k \in 1..Len(drawn.ma_line) :
                /\ Aligned(drawn.ma_line[k].x1, drawn.ma_line[k].y1)
                /\ Aligned(drawn.ma_line[k].x2, drawn.ma_line[k].y2)

\* C17: every frame of a non-empty window has exactly 5 axis price labels,
\* evenly spaced from yMin to yMax.
C17_AxisLabels ==
    Charted =>
        LET labels == drawn.labels
        IN  /\ Len(labels) = 5
            /\ labels[1].y = drawn.y_bounds[1]
            /\ labels[Len(labels)].y = drawn.y_bounds[2]
            /\ \A i \in 1..(Len(labels) - 2) :
                  QSub(labels[i + 1].y, labels[i].y)
                      = QSub(labels[i + 2].y, labels[i + 1].y)

\* C18: a frame drawn with n stored averages has exactly max(0, n-1) line
\* segments of the moving average, segment i joining average i-1 at x = i-1
\* to average i at x = i; with fewer than 2 averages there is no segment.
C18_MaPolyline ==
    drawn.rendered =>
        LET n == Len(ma50_values)
        IN  /\ Len(drawn.ma_line) = Max(0, n - 1)
            /\ n < 2 => drawn.ma_line = <<>>
            /\ \A i \in 1..(n - 1) :
                  /\ drawn.ma_line[i].x1 = i - 1
                  /\ drawn.ma_line[i].y1 = ma50_values[i]
                  /\ drawn.ma_line[i].x2 = i
                  /\ drawn.ma_line[i].y2 = ma50_values[i + 1]

C18_Witness ==
    /\ Charted
    /\ Len(ma50_values) >= 3
    /\ Len(drawn.ma_line) = Len(ma50_values) - 1
    /\ ma50_values[1] # ma50_values[2]

C18_WitnessOneAverage ==
    /\ Charted
    /\ Len(ma50_values) = 1
    /\ drawn.ma_line = <<>>

\* a <= b for two rationals with positive denominators
QLe(a, b) == a.num * b.den <= b.num * a.den

LowOf(cs) == CHOOSE l \in {cs[i].low : i \in 1..Len(cs)} :
                 \A i \in 1..Len(cs) : l <= cs[i].low

HighOf(cs) == CHOOSE h \in {cs[i].high : i \in 1..Len(cs)} :
                  \A i \in 1..Len(cs) : h >= cs[i].high

\* C20: in every frame of a non-empty visible slice
\* yMin = minLow - 0.1*(maxHigh - minLow) and
\* yMax = maxHigh + 0.1*(maxHigh - minLow), every visible low and high lies
\* in [yMin, yMax], and with maxHigh = minLow both bounds are that price.
C20_VerticalBounds ==
    Charted =>
        LET minLow == LowOf(Shown)
            maxHigh == HighOf(Shown)
            yMin == drawn.y_bounds[1]
            yMax == drawn.y_bounds[2]
        IN  /\ yMin.den > 0
            /\ yMax.den > 0
            /\ 10 * yMin.num = (10 * minLow - (maxHigh - minLow)) * yMin.den
            /\ 10 * yMax.num = (10 * maxHigh + (maxHigh - minLow)) * yMax.den
            /\ \A i \in 1..Len(Shown) :
                  /\ QLe(yMin, Q(Shown[i].low))
                  /\ QLe(Q(Shown[i].high), yMax)
            /\ maxHigh = minLow => (yMin = Q(minLow) /\ yMax = Q(minLow))

C20_Witness ==
    /\ program = "bybit"
    /\ Charted
    /\ Len(Shown) >= 2
    /\ HighOf(Shown) - LowOf(Shown) >= 10
    /\ drawn.y_bounds[1].den > 1

\* the zero-height axis
C20_WitnessFlat ==
    /\ program = "bybit"
    /\ Charted
    /\ HighOf(Shown) = LowOf(Shown)
    /\ drawn.y_bounds[1] = drawn.y_bounds[2]

\* ------------------------------------------------------------------------
\* Properties of length_of_longest_substring
\* ------------------------------------------------------------------------
NoRepeat(s, i, j) == \A a, b \in i..j : a # b => s[a] # s[b]

\* Lengths of the contiguous substrings of s without a repeated character
DistinctLengths(s) ==
    {0} \cup { j - i + 1 : <<i, j>> \in
                  { w \in (1..Len(s)) \X (1..Len(s)) :
                      w[1] <= w[2] /\ NoRepeat(s, w[1], w[2]) } }

Longest(s) == CHOOSE n \in DistinctLengths(s) :
                  \A k \in DistinctLengths(s) : k <= n

\* C15: length_of_longest_substring returns the length of the longest
\* contiguous substring without a repeated character, 0 for the empty string.
C15_LongestSubstring ==
    lls_result # NoResult
        => /\ lls_result = Longest(lls_input)
           /\ lls_input = <<>> => lls_result = 0

\* the first test case: "abcabcbb" gives 3
C15_Witness ==
    /\ lls_input = <<"a", "b", "c", "a", "b", "c", "b", "b">>
    /\ lls_result = 3

\* "bbbbb" gives 1 and "" gives 0
C15_WitnessRepeated ==
    /\ lls_input = <<"b", "b", "b", "b", "b">>
    /\ lls_result = 1
====
